---- MODULE Spec2Model ----
(***************************************************************************)
(* Record schemas of the ebook platform (schemas.py): User, Ebook,         *)
(* Purchase and LibraryItem are pydantic BaseModel classes.  The model     *)
(* holds the field declarations of each class and the construction,        *)
(* serialisation and attribute assignment every BaseModel with the default *)
(* configuration has.                                                      *)
(*                                                                         *)
(* Values.  Every Python value is a tagged record.  Text is a sequence of  *)
(* one-character strings, so its length is Len and the conversions of      *)
(* EmailStr and HttpUrl work on the characters.  Numbers are held in       *)
(* hundredths (Centi(1) is 1.0), so that values just above and just below  *)
(* a bound exist.  Absent is a key the input mapping does not have.        *)
(***************************************************************************)
EXTENDS Integers, Sequences, FiniteSets, TLC

VARIABLES pc, kind, inp, res, doc, res2,
          userIds, ebookIds, purchases, library, last

vars == <<pc, kind, inp, res, doc, res2, userIds, ebookIds, purchases, library, last>>

----------------------------------------------------------------------------
(* Values *)

Absent == [t |-> "absent"]
None == [t |-> "none"]
Str(cs) == [t |-> "str", s |-> cs]
Num(v) == [t |-> "num", v |-> v]
Bool(b) == [t |-> "bool", b |-> b]
Datetime(ts) == [t |-> "datetime", ts |-> ts]
Dict(m) == [t |-> "dict", m |-> m]
List(xs) == [t |-> "list", xs |-> xs]

Centi(n) == n * 100

Rep(n) == [i \in 1..n |-> "x"]

----------------------------------------------------------------------------
(* Text helpers *)

UpperCase == <<"A","B","C","D","E","F","G","H","I","J","K","L","M",
               "N","O","P","Q","R","S","T","U","V","W","X","Y","Z">>
LowerCase == <<"a","b","c","d","e","f","g","h","i","j","k","l","m",
               "n","o","p","q","r","s","t","u","v","w","x","y","z">>

LowerChar(c) ==
  IF \E i \in DOMAIN UpperCase : UpperCase[i] = c
  THEN LowerCase[CHOOSE i \in DOMAIN UpperCase : UpperCase[i] = c]
  ELSE c

Lower(cs) == [i \in DOMAIN cs |-> LowerChar(cs[i])]

\* Index of the first occurrence of c in cs, 0 when there is none.
IndexOf(cs, c) ==
  IF \E i \in DOMAIN cs : cs[i] = c
  THEN CHOOSE i \in DOMAIN cs : cs[i] = c /\ \A j \in 1..(i - 1) : cs[j] # c
  ELSE 0

Count(cs, c) == Cardinality({i \in DOMAIN cs : cs[i] = c})

\* cs without its leading occurrences of c.
RECURSIVE StripLeading(_, _)
StripLeading(cs, c) ==
  IF cs # <<>> /\ Head(cs) = c THEN StripLeading(Tail(cs), c) ELSE cs

DigitChars == <<"0","1","2","3","4","5","6","7","8","9">>
IsDigit(c) == \E i \in DOMAIN DigitChars : DigitChars[i] = c
DigitValue(c) == (CHOOSE i \in DOMAIN DigitChars : DigitChars[i] = c) - 1

RECURSIVE DigitsValue(_)
DigitsValue(cs) ==
  IF cs = <<>> THEN 0
  ELSE DigitsValue(SubSeq(cs, 1, Len(cs) - 1)) * 10 + DigitValue(cs[Len(cs)])

\* The integer a decimal text denotes: {n}, or {} when it is no integer.
ParseInt(cs) ==
  LET neg == cs # <<>> /\ Head(cs) = "-"
      ds == IF neg THEN Tail(cs) ELSE cs
  IN IF ds # <<>> /\ \A i \in DOMAIN ds : IsDigit(ds[i])
     THEN {IF neg THEN 0 - DigitsValue(ds) ELSE DigitsValue(ds)}
     ELSE {}

----------------------------------------------------------------------------
(* Field declarations.  A declaration is what an annotation and its Field() *)
(* give: the type, whether None is allowed (Optional), the default (the     *)
(* empty set when the field is required) and the constraints (each the      *)
(* empty set when not given).                                               *)

T(type) == [type |-> type, optional |-> FALSE, default |-> {},
            min_length |-> {}, max_length |-> {}, ge |-> {}, le |-> {},
            allowed |-> {}]

Ok(v) == [ok |-> TRUE, val |-> v, err |-> "none"]
Err(e) == [ok |-> FALSE, val |-> None, err |-> e]

----------------------------------------------------------------------------
(* Type validators (lax mode, the default) *)

\* str with min_length / max_length.
ValidateStr(d, v) ==
  IF v.t # "str" THEN Err("string_type")
  ELSE IF \E m \in d.min_length : Len(v.s) < m THEN Err("string_too_short")
  ELSE IF \E m \in d.max_length : Len(v.s) > m THEN Err("string_too_long")
  ELSE Ok(v)

\* Labels separated by dots, none of them empty.
DotAtomOk(cs) ==
  /\ cs # <<>>
  /\ cs[1] # "."
  /\ cs[Len(cs)] # "."
  /\ \A i \in 1..(Len(cs) - 1) : ~(cs[i] = "." /\ cs[i + 1] = ".")

EmailLocal(cs) == SubSeq(cs, 1, IndexOf(cs, "@") - 1)
EmailDomain(cs) == SubSeq(cs, IndexOf(cs, "@") + 1, Len(cs))

\* The syntax of an address as far as the inputs drawn below exercise it: one
\* "@", a dot-atom before it, a domain with a period after it.
EmailSyntaxOk(cs) ==
  /\ Count(cs, "@") = 1
  /\ DotAtomOk(EmailLocal(cs))
  /\ DotAtomOk(EmailDomain(cs))
  /\ Count(EmailDomain(cs), ".") >= 1

\* Variant: the whole address in lower case.
NormalizeEmailLowerAll(cs) == Lower(cs)

\* The address as EmailStr returns it: the domain in lower case, the local
\* part as given.
NormalizeEmail(cs) == EmailLocal(cs) \o <<"@">> \o Lower(EmailDomain(cs))

ValidateEmail(v) ==
  IF v.t # "str" THEN Err("string_type")
  ELSE IF ~EmailSyntaxOk(v.s) THEN Err("value_error")
  ELSE Ok(Str(NormalizeEmail(v.s)))

HttpSchemes == {<<"h","t","t","p">>, <<"h","t","t","p","s">>}

UrlScheme(cs) == Lower(SubSeq(cs, 1, IndexOf(cs, ":") - 1))
UrlAfterScheme(cs) ==
  StripLeading(SubSeq(cs, IndexOf(cs, ":") + 1, Len(cs)), "/")
UrlHost(cs) ==
  LET r == UrlAfterScheme(cs)
  IN IF IndexOf(r, "/") = 0 THEN r ELSE SubSeq(r, 1, IndexOf(r, "/") - 1)
UrlPath(cs) ==
  LET r == UrlAfterScheme(cs)
  IN IF IndexOf(r, "/") = 0 THEN <<"/">> ELSE SubSeq(r, IndexOf(r, "/"), Len(r))

\* The URL as HttpUrl holds it: scheme and host in lower case, an empty path
\* written "/".  (The Url object is held as its text.)
NormalizeUrl(cs) ==
  UrlScheme(cs) \o <<":","/","/">> \o Lower(UrlHost(cs)) \o UrlPath(cs)

ValidateHttpUrl(v) ==
  IF v.t # "str" THEN Err("url_type")
  ELSE IF IndexOf(v.s, ":") = 0 THEN Err("url_parsing")
  ELSE IF UrlScheme(v.s) \notin HttpSchemes THEN Err("url_scheme")
  ELSE IF UrlHost(v.s) = <<>> THEN Err("url_parsing")
  ELSE Ok(Str(NormalizeUrl(v.s)))

\* float with ge / le.  A number is taken as it is, a decimal text is parsed.
ValidateFloat(d, v) ==
  LET n == IF v.t = "num" THEN {v.v}
           ELSE IF v.t = "str" THEN {Centi(k) : k \in ParseInt(v.s)}
           ELSE {}
  IN IF v.t \notin {"num", "str"} THEN Err("float_type")
     ELSE IF n = {} THEN Err("float_parsing")
     ELSE IF \E x \in n, b \in d.ge : x < b THEN Err("greater_than_equal")
     ELSE IF \E x \in n, b \in d.le : x > b THEN Err("less_than_equal")
     ELSE Ok(Num(CHOOSE x \in n : TRUE))

BoolTrueTexts == {<<"1">>, <<"t">>, <<"y">>, <<"o","n">>, <<"y","e","s">>,
                  <<"t","r","u","e">>}
BoolFalseTexts == {<<"0">>, <<"f">>, <<"n">>, <<"o","f","f">>, <<"n","o">>,
                   <<"f","a","l","s","e">>}

ValidateBool(v) ==
  IF v.t = "bool" THEN Ok(v)
  ELSE IF v.t = "num" THEN
    IF v.v = Centi(1) THEN Ok(Bool(TRUE))
    ELSE IF v.v = 0 THEN Ok(Bool(FALSE))
    ELSE Err("bool_parsing")
  ELSE IF v.t = "str" THEN
    IF Lower(v.s) \in BoolTrueTexts THEN Ok(Bool(TRUE))
    ELSE IF Lower(v.s) \in BoolFalseTexts THEN Ok(Bool(FALSE))
    ELSE Err("bool_parsing")
  ELSE Err("bool_type")

\* Literal[...]: the value is one of the listed ones, compared exactly.
ValidateLiteral(d, v) ==
  IF v \in d.allowed THEN Ok(v) ELSE Err("literal_error")

\* datetime: a datetime as it is, a number or a decimal text as a Unix time in
\* seconds.  (ISO 8601 texts, and numbers large enough to be read as
\* milliseconds, are not among the inputs drawn below.)
ValidateDatetime(v) ==
  IF v.t = "datetime" THEN Ok(v)
  ELSE IF v.t = "num" THEN Ok(Datetime(v.v))
  ELSE IF v.t = "str" THEN
    IF ParseInt(v.s) = {} THEN Err("datetime_from_date_parsing")
    ELSE Ok(Datetime(Centi(CHOOSE k \in ParseInt(v.s) : TRUE)))
  ELSE Err("datetime_type")

\* Dict[str, HttpUrl]: every value is validated as an HttpUrl.
ValidateDictOfUrl(v) ==
  IF v.t # "dict" THEN Err("dict_type")
  ELSE IF \E k \in DOMAIN v.m : ~ValidateHttpUrl(v.m[k]).ok
  THEN Err(ValidateHttpUrl(v.m[CHOOSE k \in DOMAIN v.m : ~ValidateHttpUrl(v.m[k]).ok]).err)
  ELSE Ok(Dict([k \in DOMAIN v.m |-> ValidateHttpUrl(v.m[k]).val]))

\* List[str]: every item is a str; items, their order and duplicates are kept.
ValidateListOfStr(v) ==
  IF v.t # "list" THEN Err("list_type")
  ELSE IF \E i \in DOMAIN v.xs : v.xs[i].t # "str" THEN Err("string_type")
  ELSE Ok(v)

ValidateType(d, v) ==
  CASE d.type = "str" -> ValidateStr(d, v)
    [] d.type = "email" -> ValidateEmail(v)
    [] d.type = "url" -> ValidateHttpUrl(v)
    [] d.type = "float" -> ValidateFloat(d, v)
    [] d.type = "bool" -> ValidateBool(v)
    [] d.type = "literal" -> ValidateLiteral(d, v)
    [] d.type = "datetime" -> ValidateDatetime(v)
    [] d.type = "dict_url" -> ValidateDictOfUrl(v)
    [] d.type = "list_str" -> ValidateListOfStr(v)

\* One field of the input: a missing key takes the default (not validated) or
\* is an error when the field is required; None passes an Optional field.
ValidateField(d, v) ==
  IF v = Absent THEN
    IF d.default = {} THEN Err("missing") ELSE Ok(CHOOSE x \in d.default : TRUE)
  ELSE IF v = None /\ d.optional THEN Ok(None)
  ELSE ValidateType(d, v)

NoRecord == [t |-> "norecord"]

\* Variant: a field that has a default falls back to it when its value is
\* invalid.
ValidateLenient(schema, input) ==
  LET r == [f \in DOMAIN schema |->
              IF ValidateField(schema[f], input[f]).ok \/ schema[f].default = {}
              THEN ValidateField(schema[f], input[f])
              ELSE ValidateField(schema[f], Absent)]
      errors == {[field |-> f, type |-> r[f].err] : f \in {g \in DOMAIN schema : ~r[g].ok}}
  IN IF errors = {}
     THEN [ok |-> TRUE, rec |-> [f \in DOMAIN schema |-> r[f].val], errors |-> {}]
     ELSE [ok |-> FALSE, rec |-> NoRecord, errors |-> errors]

\* BaseModel construction: every field is validated, all errors are
\* collected, and a record is built only when there is none.
Validate(schema, input) ==
  LET r == [f \in DOMAIN schema |-> ValidateField(schema[f], input[f])]
      errors == {[field |-> f, type |-> r[f].err] : f \in {g \in DOMAIN schema : ~r[g].ok}}
  IN IF errors = {}
     THEN [ok |-> TRUE, rec |-> [f \in DOMAIN schema |-> r[f].val], errors |-> {}]
     ELSE [ok |-> FALSE, rec |-> NoRecord, errors |-> errors]

\* model_dump(): the fields of the record as a plain mapping, values as held.
Serialize(rec) == [f \in DOMAIN rec |-> rec[f]]

\* Attribute assignment: validate_assignment is off, the value is stored as
\* given.
Assign(rec, f, v) == [rec EXCEPT ![f] = v]

----------------------------------------------------------------------------
(* Tokens *)

S_user == Str(<<"u","s","e","r">>)
S_admin == Str(<<"a","d","m","i","n">>)
S_INR == Str(<<"I","N","R">>)
S_USD == Str(<<"U","S","D">>)
S_created == Str(<<"c","r","e","a","t","e","d">>)
S_paid == Str(<<"p","a","i","d">>)
S_failed == Str(<<"f","a","i","l","e","d">>)
S_refunded == Str(<<"r","e","f","u","n","d","e","d">>)

----------------------------------------------------------------------------
(* The classes *)

UserFields ==
  [name |-> [T("str") EXCEPT !.min_length = {2}, !.max_length = {120}],
   email |-> T("email"),
   hashed_password |-> [T("str") EXCEPT !.min_length = {60}, !.max_length = {200}],
   role |-> [T("literal") EXCEPT !.allowed = {S_user, S_admin}, !.default = {S_user}],
   avatar_url |-> [T("url") EXCEPT !.optional = TRUE, !.default = {None}],
   is_active |-> [T("bool") EXCEPT !.default = {Bool(TRUE)}]]

EbookFields ==
  [title |-> [T("str") EXCEPT !.min_length = {1}, !.max_length = {200}],
   author |-> [T("str") EXCEPT !.min_length = {1}, !.max_length = {120}],
   description |-> [T("str") EXCEPT !.optional = TRUE, !.default = {None},
                                    !.max_length = {5000}],
   price |-> [T("float") EXCEPT !.ge = {0}],
   currency |-> [T("literal") EXCEPT !.allowed = {S_INR, S_USD}, !.default = {S_INR}],
   cover_url |-> [T("url") EXCEPT !.optional = TRUE, !.default = {None}],
   file_urls |-> [T("dict_url") EXCEPT !.default = {Dict(<<>>)}],
   categories |-> [T("list_str") EXCEPT !.default = {List(<<>>)}],
   published |-> [T("bool") EXCEPT !.default = {Bool(TRUE)}],
   created_by |-> [T("str") EXCEPT !.optional = TRUE, !.default = {None}]]

PurchaseFields ==
  [user_id |-> T("str"),
   ebook_id |-> T("str"),
   amount |-> [T("float") EXCEPT !.ge = {0}],
   currency |-> [T("literal") EXCEPT !.allowed = {S_INR, S_USD}, !.default = {S_INR}],
   status |-> [T("literal") EXCEPT !.allowed = {S_created, S_paid, S_failed, S_refunded},
                                   !.default = {S_created}],
   razorpay_order_id |-> [T("str") EXCEPT !.optional = TRUE, !.default = {None}],
   razorpay_payment_id |-> [T("str") EXCEPT !.optional = TRUE, !.default = {None}],
   razorpay_signature |-> [T("str") EXCEPT !.optional = TRUE, !.default = {None}]]

LibraryItemFields ==
  [user_id |-> T("str"),
   ebook_id |-> T("str"),
   last_read_at |-> [T("datetime") EXCEPT !.optional = TRUE, !.default = {None}],
   progress |-> [T("float") EXCEPT !.default = {Num(0)}, !.ge = {0}, !.le = {Centi(100)}]]

\* Variants of the declarations, each one slip away from the source.
UserNameMinOne == [UserFields EXCEPT !.name.min_length = {1}]
UserAvatarRequired == [UserFields EXCEPT !.avatar_url.default = {}]
PurchaseNoRefunded ==
  [PurchaseFields EXCEPT !.status.allowed = {S_created, S_paid, S_failed}]
PurchaseAnyStatus ==
  [PurchaseFields EXCEPT !.status = [T("str") EXCEPT !.default = {S_created}]]
PurchaseAmountDefault == [PurchaseFields EXCEPT !.amount.default = {Num(0)}]
LibraryItemProgressBelow100 ==
  [LibraryItemFields EXCEPT !.progress.le = {Centi(100) - 1}]

\* The classes as declared.
User == UserFields
Ebook == EbookFields
Purchase == PurchaseFields
LibraryItem == LibraryItemFields

Kinds == {"User", "Ebook", "Purchase", "LibraryItem"}

Schema(k) ==
  CASE k = "User" -> User
    [] k = "Ebook" -> Ebook
    [] k = "Purchase" -> Purchase
    [] k = "LibraryItem" -> LibraryItem

Fields(k) == DOMAIN Schema(k)

----------------------------------------------------------------------------
(* Inputs.  Values(k)[f] are the values drawn for field f of class k: the   *)
(* lengths and numbers on both sides of every bound, listed and unlisted    *)
(* tokens, texts in and out of normal form, values of another type, None    *)
(* and Absent.  Base(k) is the smallest valid input (the required fields    *)
(* only).  Inputs(k) are the inputs that differ from Base(k) in at most     *)
(* MaxDeviations fields.                                                    *)

MaxDeviations == 2

T_Ada == Str(<<"A","d","a">>)
E_plain == Str(<<"a","d","a","@","x",".","c","o","m">>)
E_upperDomain == Str(<<"a","d","a","@","X",".","C","o","m">>)
E_upperLocal == Str(<<"A","d","a","@","x",".","c","o","m">>)
E_noAt == Str(<<"a","d","a",".","x",".","c","o","m">>)
E_noDot == Str(<<"a","d","a","@","x">>)
U_canon == Str(<<"h","t","t","p",":","/","/","x",".","c","o","m","/">>)
U_noPath == Str(<<"h","t","t","p",":","/","/","x",".","c","o","m">>)
U_upper == Str(<<"H","T","T","P",":","/","/","X",".","c","o","m","/","a">>)
U_noScheme == Str(<<"n","o","t","-","a","-","u","r","l">>)
U_ftp == Str(<<"f","t","p",":","/","/","x",".","c","o","m","/">>)
K_pdf == <<"p","d","f">>
K_epub == <<"e","p","u","b">>
Id_u1 == Str(<<"u","1">>)
Id_u2 == Str(<<"u","2">>)
Id_e1 == Str(<<"e","1">>)
T_a == Str(<<"a">>)
T_b == Str(<<"b">>)
T_no == Str(<<"N","o">>)
T_maybe == Str(<<"m","a","y","b","e">>)
T_5 == Str(<<"5">>)
T_minus1 == Str(<<"-","1">>)
T_1700 == Str(<<"1","7","0","0">>)
T_root == Str(<<"r","o","o","t">>)
T_Admin == Str(<<"A","d","m","i","n">>)
T_EUR == Str(<<"E","U","R">>)
T_inr == Str(<<"i","n","r">>)
T_pending == Str(<<"p","e","n","d","i","n","g">>)
T_Paid == Str(<<"P","a","i","d">>)

UserValues ==
  [name |-> {Absent, None, Num(Centi(5)), T_Ada,
             Str(Rep(1)), Str(Rep(2)), Str(Rep(120)), Str(Rep(121))},
   email |-> {Absent, None, E_plain, E_upperDomain, E_upperLocal, E_noAt, E_noDot},
   hashed_password |-> {Absent, Str(Rep(59)), Str(Rep(60)), Str(Rep(200)), Str(Rep(201))},
   role |-> {Absent, None, S_user, S_admin, T_root, T_Admin},
   avatar_url |-> {Absent, None, U_canon, U_noPath, U_upper, U_noScheme, U_ftp},
   is_active |-> {Absent, None, Bool(TRUE), Bool(FALSE), T_no, T_maybe}]

EbookValues ==
  [title |-> {Absent, Str(Rep(0)), Str(Rep(1)), Str(Rep(200)), Str(Rep(201))},
   author |-> {Absent, Str(Rep(0)), Str(Rep(1)), Str(Rep(120)), Str(Rep(121))},
   description |-> {Absent, None, Str(Rep(0)), Str(Rep(5000)), Str(Rep(5001))},
   price |-> {Absent, None, Num(0 - 1), Num(0), Num(1), Num(Centi(199)),
              T_5, T_minus1, T_maybe},
   currency |-> {Absent, S_INR, S_USD, T_EUR, T_inr},
   cover_url |-> {Absent, None, U_canon, U_noPath, U_noScheme},
   file_urls |-> {Absent, Dict(<<>>), Dict(K_pdf :> U_canon),
                  Dict(K_pdf :> U_noPath @@ K_epub :> U_canon),
                  Dict(K_pdf :> U_noScheme), List(<<>>)},
   categories |-> {Absent, List(<<>>), List(<<T_b, T_a, T_a>>),
                   List(<<T_a, Num(Centi(5))>>), T_a},
   published |-> {Absent, Bool(TRUE), Bool(FALSE), T_maybe},
   created_by |-> {Absent, None, Id_u1, Num(Centi(7))}]

PurchaseValues ==
  [user_id |-> {Absent, None, Id_u1, Id_u2, Num(Centi(7))},
   ebook_id |-> {Absent, None, Id_e1},
   amount |-> {Absent, Num(0 - 1), Num(0), Num(1), Num(Centi(199))},
   currency |-> {Absent, S_INR, S_USD, T_EUR},
   status |-> {Absent, None, S_created, S_paid, S_failed, S_refunded,
               T_pending, T_Paid, Str(<<>>)},
   razorpay_order_id |-> {Absent, None, T_a, Num(Centi(7))},
   razorpay_payment_id |-> {Absent, None, T_a},
   razorpay_signature |-> {Absent, None, T_a}]

LibraryItemValues ==
  [user_id |-> {Absent, None, Id_u1, Id_u2},
   ebook_id |-> {Absent, Id_e1, Num(Centi(7))},
   last_read_at |-> {Absent, None, Datetime(Centi(1700)), Num(Centi(1700)),
                     T_1700, T_maybe},
   progress |-> {Absent, None, Num(0 - 1), Num(0), Num(1), Num(Centi(50)),
                 Num(Centi(100) - 1), Num(Centi(100)), Num(Centi(100) + 1), T_5}]

Values(k) ==
  CASE k = "User" -> UserValues
    [] k = "Ebook" -> EbookValues
    [] k = "Purchase" -> PurchaseValues
    [] k = "LibraryItem" -> LibraryItemValues

Base(k) ==
  CASE k = "User" ->
         [name |-> T_Ada, email |-> E_plain, hashed_password |-> Str(Rep(60)),
          role |-> Absent, avatar_url |-> Absent, is_active |-> Absent]
    [] k = "Ebook" ->
         [title |-> Str(Rep(1)), author |-> Str(Rep(1)), description |-> Absent,
          price |-> Num(Centi(199)), currency |-> Absent, cover_url |-> Absent,
          file_urls |-> Absent, categories |-> Absent, published |-> Absent,
          created_by |-> Absent]
    [] k = "Purchase" ->
         [user_id |-> Id_u1, ebook_id |-> Id_e1, amount |-> Num(Centi(199)),
          currency |-> Absent, status |-> Absent, razorpay_order_id |-> Absent,
          razorpay_payment_id |-> Absent, razorpay_signature |-> Absent]
    [] k = "LibraryItem" ->
         [user_id |-> Id_u1, ebook_id |-> Id_e1, last_read_at |-> Absent,
          progress |-> Absent]

RECURSIVE Vary(_, _, _)
Vary(k, fs, input) ==
  IF fs = {} THEN {input}
  ELSE LET f == CHOOSE x \in fs : TRUE
       IN UNION {Vary(k, fs \ {f}, [input EXCEPT ![f] = v]) : v \in Values(k)[f]}

Min(a, b) == IF a <= b THEN a ELSE b

Inputs(k) ==
  UNION {Vary(k, fs, Base(k)) :
           fs \in {x \in SUBSET Fields(k) :
                     Cardinality(x) = Min(MaxDeviations, Cardinality(Fields(k)))}}

----------------------------------------------------------------------------
(* Validation of one input: construct, serialise, construct again.          *)

NoResult == [ok |-> FALSE, rec |-> NoRecord, errors |-> {}]
NoInput == [t |-> "noinput"]

InitStore ==
  /\ userIds = {}
  /\ ebookIds = {}
  /\ purchases = <<>>
  /\ library = <<>>
  /\ last = [op |-> "none", input |-> NoInput, ok |-> TRUE, slot |-> 0,
             from |-> None, to |-> None]

InitValidate ==
  /\ pc = "input"
  /\ kind \in Kinds
  /\ inp \in Inputs(kind)
  /\ res = NoResult
  /\ doc = NoRecord
  /\ res2 = NoResult
  /\ InitStore

StoreUnchanged == UNCHANGED <<userIds, ebookIds, purchases, library, last>>

Constructed ==
  /\ pc' = "constructed"
  /\ UNCHANGED <<kind, inp, doc, res2>>
  /\ StoreUnchanged

ConstructUser ==
  /\ pc = "input" /\ kind = "User"
  /\ res' = Validate(User, inp)
  /\ Constructed

ConstructEbook ==
  /\ pc = "input" /\ kind = "Ebook"
  /\ res' = Validate(Ebook, inp)
  /\ Constructed

ConstructPurchase ==
  /\ pc = "input" /\ kind = "Purchase"
  /\ res' = Validate(Purchase, inp)
  /\ Constructed

ConstructLibraryItem ==
  /\ pc = "input" /\ kind = "LibraryItem"
  /\ res' = Validate(LibraryItem, inp)
  /\ Constructed

Dump ==
  /\ pc = "constructed"
  /\ res.ok
  /\ doc' = Serialize(res.rec)
  /\ pc' = "serialized"
  /\ UNCHANGED <<kind, inp, res, res2>>
  /\ StoreUnchanged

Reconstruct ==
  /\ pc = "serialized"
  /\ res2' = Validate(Schema(kind), doc)
  /\ pc' = "done"
  /\ UNCHANGED <<kind, inp, res, doc>>
  /\ StoreUnchanged

NextValidate ==
  \/ ConstructUser
  \/ ConstructEbook
  \/ ConstructPurchase
  \/ ConstructLibraryItem
  \/ Dump
  \/ Reconstruct

SpecValidate == InitValidate /\ [][NextValidate]_vars

----------------------------------------------------------------------------
(* Records in use.  The service around the schemas keeps the records it     *)
(* constructed: the identifiers given to the users and ebooks, the          *)
(* purchases and the library items.  It constructs records, assigns to the  *)
(* status of a purchase, and replaces a purchase by one constructed from    *)
(* its serialised form with another status.                                 *)

MaxRecords == 1

UserStoreInputs == {Base("User"), [Base("User") EXCEPT !.name = Str(Rep(1))]}

EbookStoreInputs ==
  {[Base("Ebook") EXCEPT !.created_by = c] : c \in {Absent, Id_u1, Id_u2}}
    \cup {[Base("Ebook") EXCEPT !.price = Num(0 - 1)]}

PurchaseStoreInputs ==
  {[Base("Purchase") EXCEPT !.user_id = u, !.status = st] :
     u \in {Id_u1, Id_u2},
     st \in {Absent, S_created, S_paid, S_failed, S_refunded, T_pending}}
    \cup {[Base("Purchase") EXCEPT !.amount = Num(0 - 1)]}

LibraryStoreInputs ==
  {[Base("LibraryItem") EXCEPT !.progress = p] :
     p \in {Absent, Num(Centi(100) + 1)}}

StatusValues == {S_created, S_paid, S_failed, S_refunded, T_pending}

Init ==
  /\ pc = "idle"
  /\ kind = "none"
  /\ inp = NoInput
  /\ res = NoResult
  /\ doc = NoRecord
  /\ res2 = NoResult
  /\ InitStore

ValidateUnchanged == UNCHANGED <<pc, kind, inp, res, doc, res2>>

NewUser(input) ==
  LET r == Validate(User, input)
  IN /\ userIds' = IF r.ok THEN userIds \cup {Id_u1} ELSE userIds
     /\ last' = [op |-> "User", input |-> input, ok |-> r.ok, slot |-> 0,
                 from |-> None, to |-> None]
     /\ UNCHANGED <<ebookIds, purchases, library>>
     /\ ValidateUnchanged

NewEbook(input) ==
  LET r == Validate(Ebook, input)
  IN /\ ebookIds' = IF r.ok THEN ebookIds \cup {Id_e1} ELSE ebookIds
     /\ last' = [op |-> "Ebook", input |-> input, ok |-> r.ok, slot |-> 0,
                 from |-> None, to |-> None]
     /\ UNCHANGED <<userIds, purchases, library>>
     /\ ValidateUnchanged

\* Variant: the constructor looks the user up.
NewPurchaseChecked(input) ==
  LET r == Validate(Purchase, input)
      found == r.ok /\ input.user_id \in userIds
  IN /\ Len(purchases) < MaxRecords
     /\ purchases' = IF found THEN Append(purchases, r.rec) ELSE purchases
     /\ last' = [op |-> "Purchase", input |-> input, ok |-> found,
                 slot |-> IF found THEN Len(purchases) + 1 ELSE 0,
                 from |-> None, to |-> None]
     /\ UNCHANGED <<userIds, ebookIds, library>>
     /\ ValidateUnchanged

NewPurchase(input) ==
  LET r == Validate(Purchase, input)
  IN /\ Len(purchases) < MaxRecords
     /\ purchases' = IF r.ok THEN Append(purchases, r.rec) ELSE purchases
     /\ last' = [op |-> "Purchase", input |-> input, ok |-> r.ok,
                 slot |-> IF r.ok THEN Len(purchases) + 1 ELSE 0,
                 from |-> None, to |-> None]
     /\ UNCHANGED <<userIds, ebookIds, library>>
     /\ ValidateUnchanged

NewLibraryItem(input) ==
  LET r == Validate(LibraryItem, input)
  IN /\ Len(library) < MaxRecords
     /\ library' = IF r.ok THEN Append(library, r.rec) ELSE library
     /\ last' = [op |-> "LibraryItem", input |-> input, ok |-> r.ok,
                 slot |-> IF r.ok THEN Len(library) + 1 ELSE 0,
                 from |-> None, to |-> None]
     /\ UNCHANGED <<userIds, ebookIds, purchases>>
     /\ ValidateUnchanged

\* purchase.status = v
SetStatus(i, v) ==
  /\ i \in DOMAIN purchases
  /\ purchases' = [purchases EXCEPT ![i] = Assign(purchases[i], "status", v)]
  /\ last' = [op |-> "assign", input |-> NoInput, ok |-> TRUE, slot |-> i,
              from |-> purchases[i].status, to |-> v]
  /\ UNCHANGED <<userIds, ebookIds, library>>
  /\ ValidateUnchanged

\* Variant: a status other than "created" is final.
UpdateStatusSequenced(i, v) ==
  /\ i \in DOMAIN purchases
  /\ LET input == [Serialize(purchases[i]) EXCEPT !.status = v]
         r == Validate(Purchase, input)
         allowed == r.ok /\ purchases[i].status = S_created
     IN /\ purchases' = IF allowed THEN [purchases EXCEPT ![i] = r.rec] ELSE purchases
        /\ last' = [op |-> "update", input |-> input, ok |-> allowed, slot |-> i,
                    from |-> purchases[i].status, to |-> v]
  /\ UNCHANGED <<userIds, ebookIds, library>>
  /\ ValidateUnchanged

\* Purchase(**{**purchase.model_dump(), "status": v})
UpdateStatus(i, v) ==
  /\ i \in DOMAIN purchases
  /\ LET input == [Serialize(purchases[i]) EXCEPT !.status = v]
         r == Validate(Purchase, input)
     IN /\ purchases' = IF r.ok THEN [purchases EXCEPT ![i] = r.rec] ELSE purchases
        /\ last' = [op |-> "update", input |-> input, ok |-> r.ok, slot |-> i,
                    from |-> purchases[i].status, to |-> v]
  /\ UNCHANGED <<userIds, ebookIds, library>>
  /\ ValidateUnchanged

Next ==
  \/ \E input \in UserStoreInputs : NewUser(input)
  \/ \E input \in EbookStoreInputs : NewEbook(input)
  \/ \E input \in PurchaseStoreInputs : NewPurchase(input)
  \/ \E input \in LibraryStoreInputs : NewLibraryItem(input)
  \/ \E i \in 1..MaxRecords, v \in StatusValues : SetStatus(i, v)
  \/ \E i \in 1..MaxRecords, v \in StatusValues : UpdateStatus(i, v)

Spec == Init /\ [][Next]_vars

----------------------------------------------------------------------------
(* The data contract as the specification states it, field by field: the    *)
(* sort of value, whether the field is required, whether None is allowed,   *)
(* the bounds (lengths for text, hundredths for numbers), the tokens and    *)
(* the default.                                                             *)

D(sort, required, nullable, lo, hi, tokens, default) ==
  [sort |-> sort, required |-> required, nullable |-> nullable,
   lo |-> lo, hi |-> hi, tokens |-> tokens, default |-> default]

Currencies == {S_INR, S_USD}
Statuses == {S_created, S_paid, S_failed, S_refunded}

Contract(k) ==
  CASE k = "User" ->
         [name |-> D("text", TRUE, FALSE, {2}, {120}, {}, {}),
          email |-> D("email", TRUE, FALSE, {}, {}, {}, {}),
          hashed_password |-> D("text", TRUE, FALSE, {60}, {200}, {}, {}),
          role |-> D("token", FALSE, FALSE, {}, {}, {S_user, S_admin}, {S_user}),
          avatar_url |-> D("url", FALSE, TRUE, {}, {}, {}, {None}),
          is_active |-> D("bool", FALSE, FALSE, {}, {}, {}, {Bool(TRUE)})]
    [] k = "Ebook" ->
         [title |-> D("text", TRUE, FALSE, {1}, {200}, {}, {}),
          author |-> D("text", TRUE, FALSE, {1}, {120}, {}, {}),
          description |-> D("text", FALSE, TRUE, {}, {5000}, {}, {None}),
          price |-> D("number", TRUE, FALSE, {0}, {}, {}, {}),
          currency |-> D("token", FALSE, FALSE, {}, {}, Currencies, {S_INR}),
          cover_url |-> D("url", FALSE, TRUE, {}, {}, {}, {None}),
          file_urls |-> D("urls", FALSE, FALSE, {}, {}, {}, {Dict(<<>>)}),
          categories |-> D("texts", FALSE, FALSE, {}, {}, {}, {List(<<>>)}),
          published |-> D("bool", FALSE, FALSE, {}, {}, {}, {Bool(TRUE)}),
          created_by |-> D("text", FALSE, TRUE, {}, {}, {}, {None})]
    [] k = "Purchase" ->
         [user_id |-> D("text", TRUE, FALSE, {}, {}, {}, {}),
          ebook_id |-> D("text", TRUE, FALSE, {}, {}, {}, {}),
          amount |-> D("number", TRUE, FALSE, {0}, {}, {}, {}),
          currency |-> D("token", FALSE, FALSE, {}, {}, Currencies, {S_INR}),
          status |-> D("token", FALSE, FALSE, {}, {}, Statuses, {S_created}),
          razorpay_order_id |-> D("text", FALSE, TRUE, {}, {}, {}, {None}),
          razorpay_payment_id |-> D("text", FALSE, TRUE, {}, {}, {}, {None}),
          razorpay_signature |-> D("text", FALSE, TRUE, {}, {}, {}, {None})]
    [] k = "LibraryItem" ->
         [user_id |-> D("text", TRUE, FALSE, {}, {}, {}, {}),
          ebook_id |-> D("text", TRUE, FALSE, {}, {}, {}, {}),
          last_read_at |-> D("time", FALSE, TRUE, {}, {}, {}, {None}),
          progress |-> D("number", FALSE, FALSE, {0}, {Centi(100)}, {}, {Num(0)})]

\* What a value denotes as a number, a boolean, a time or a URL: a singleton,
\* or the empty set when it denotes none.
NumberOf(v) ==
  IF v.t = "num" THEN {v.v}
  ELSE IF v.t = "str" THEN {Centi(n) : n \in ParseInt(v.s)}
  ELSE {}

BoolOf(v) ==
  IF v.t = "bool" THEN {v.b}
  ELSE IF v.t = "num" THEN {b \in BOOLEAN : v.v = (IF b THEN Centi(1) ELSE 0)}
  ELSE IF v.t = "str"
  THEN {b \in BOOLEAN : Lower(v.s) \in (IF b THEN BoolTrueTexts ELSE BoolFalseTexts)}
  ELSE {}

TimeOf(v) ==
  IF v.t = "datetime" THEN {v.ts} ELSE IF v.t \in {"num", "str"} THEN NumberOf(v) ELSE {}

UrlOf(v) ==
  IF /\ v.t = "str"
          /\ IndexOf(v.s, ":") > 0
          /\ UrlScheme(v.s) \in HttpSchemes
          /\ UrlHost(v.s) # <<>>
  THEN {NormalizeUrl(v.s)}
  ELSE {}

\* A value other than None and Absent satisfies the contract of a field.
Accepts(c, v) ==
  CASE c.sort = "text" ->
         /\ v.t = "str"
         /\ \A n \in c.lo : Len(v.s) >= n
         /\ \A n \in c.hi : Len(v.s) <= n
    [] c.sort = "token" -> v \in c.tokens
    [] c.sort = "email" -> v.t = "str" /\ EmailSyntaxOk(v.s)
    [] c.sort = "url" -> UrlOf(v) # {}
    [] c.sort = "bool" -> BoolOf(v) # {}
    [] c.sort = "number" ->
         \E x \in NumberOf(v) : (\A n \in c.lo : x >= n) /\ (\A n \in c.hi : x <= n)
    [] c.sort = "time" -> TimeOf(v) # {}
    [] c.sort = "urls" -> v.t = "dict" /\ \A key \in DOMAIN v.m : UrlOf(v.m[key]) # {}
    [] c.sort = "texts" -> v.t = "list" /\ \A i \in DOMAIN v.xs : v.xs[i].t = "str"

Satisfies(k, f, v) ==
  IF v = Absent THEN ~Contract(k)[f].required
  ELSE IF v = None THEN Contract(k)[f].nullable
  ELSE Accepts(Contract(k)[f], v)

Unsatisfied(k, input) == {f \in Fields(k) : ~Satisfies(k, f, input[f])}

\* The value of the field's type that an accepted value stands for.
Canonical(c, v) ==
  CASE c.sort = "email" ->
         Str(EmailLocal(v.s) \o <<"@">> \o Lower(EmailDomain(v.s)))
    [] c.sort = "url" -> Str(CHOOSE u \in UrlOf(v) : TRUE)
    [] c.sort = "bool" -> Bool(CHOOSE b \in BoolOf(v) : TRUE)
    [] c.sort = "number" -> Num(CHOOSE x \in NumberOf(v) : TRUE)
    [] c.sort = "time" -> Datetime(CHOOSE x \in TimeOf(v) : TRUE)
    [] c.sort = "urls" ->
         Dict([key \in DOMAIN v.m |-> Str(CHOOSE u \in UrlOf(v.m[key]) : TRUE)])
    [] OTHER -> v

\* What the record holds for a field, given what the input supplied.
Expected(k, f, v) ==
  IF v = Absent THEN CHOOSE x \in Contract(k)[f].default : TRUE
  ELSE IF v = None THEN None
  ELSE Canonical(Contract(k)[f], v)

Supplied(input) == {f \in DOMAIN input : input[f] # Absent}

----------------------------------------------------------------------------
(* Claims about the validation of one input (SpecValidate) *)

Validated == pc # "input"

\* C1: construction yields a record if and only if every field of the input
\* satisfies its declared constraint; one violating field among valid ones
\* is a failure, and a failure produces no record.
C1_NoPartialSuccess ==
  Validated =>
    /\ res.ok <=> Unsatisfied(kind, inp) = {}
    /\ res.ok => DOMAIN res.rec = Fields(kind)
    /\ ~res.ok => res.rec = NoRecord /\ res.errors # {}

C1_Witness ==
  /\ pc = "constructed"
  /\ ~res.ok
  /\ Cardinality(Unsatisfied(kind, inp)) = 1
  /\ Cardinality({f \in Fields(kind) : inp[f] # Base(kind)[f]}) = 2

\* C2: a Purchase whose other fields are valid is constructed for each of the
\* statuses created, paid, failed, refunded, and fails for every other
\* status value.
C2_StatusTokens ==
  (Validated /\ kind = "Purchase" /\ inp.status # Absent
     /\ Unsatisfied(kind, inp) \subseteq {"status"})
    => (res.ok <=> inp.status \in {S_created, S_paid, S_failed, S_refunded})

C2_Witness ==
  /\ pc = "constructed" /\ kind = "Purchase"
  /\ res.ok /\ inp.status = S_refunded

C3_Lengths ==
  {<<"User", "name", 2, 120>>, <<"User", "hashed_password", 60, 200>>,
   <<"Ebook", "title", 1, 200>>, <<"Ebook", "author", 1, 120>>,
   <<"Ebook", "description", 0, 5000>>}

\* C3: a length-bounded text field accepts exactly the lengths inside its
\* inclusive bounds: name 2..120, title 1..200, author 1..120, description
\* 0..5000 (or None, or absent), hashed_password 60..200.
C3_LengthBounds ==
  \A b \in C3_Lengths :
    (Validated /\ kind = b[1] /\ Unsatisfied(kind, inp) \subseteq {b[2]}) =>
      /\ inp[b[2]].t = "str" => (res.ok <=> Len(inp[b[2]].s) \in b[3]..b[4])
      /\ (b[2] = "description" /\ inp[b[2]] \in {None, Absent}) => res.ok

C3_Witness ==
  /\ pc = "constructed" /\ kind = "Ebook"
  /\ inp.description.t = "str"
  /\ ~res.ok /\ Len(inp.description.s) = 5001

C4_Numbers ==
  {<<"Ebook", "price">>, <<"Purchase", "amount">>, <<"LibraryItem", "progress">>}

\* C4: price and amount accept 0 and every positive number and reject every
\* negative one; progress accepts the numbers from 0 to 100, both included,
\* and rejects every number below 0 or above 100.
C4_NumericBounds ==
  \A b \in C4_Numbers :
    (Validated /\ kind = b[1] /\ inp[b[2]].t = "num"
       /\ Unsatisfied(kind, inp) \subseteq {b[2]})
      => (res.ok <=> /\ inp[b[2]].v >= 0
                     /\ b[2] = "progress" => inp[b[2]].v <= Centi(100))

C4_Witness ==
  /\ pc = "constructed" /\ kind = "LibraryItem"
  /\ inp.progress.t = "num"
  /\ res.ok /\ inp.progress.v = Centi(100)

C5_Defaults ==
  [User |-> [role |-> S_user, is_active |-> Bool(TRUE), avatar_url |-> None],
   Ebook |-> [currency |-> S_INR, published |-> Bool(TRUE), description |-> None,
              cover_url |-> None, created_by |-> None],
   Purchase |-> [currency |-> S_INR, status |-> S_created,
                 razorpay_order_id |-> None, razorpay_payment_id |-> None,
                 razorpay_signature |-> None],
   LibraryItem |-> [progress |-> Num(0), last_read_at |-> None]]

C5_OmittedNeverFails ==
  \A f \in DOMAIN C5_Defaults[kind] :
    inp[f] = Absent => \A e \in res.errors : e.field # f

\* C5 as stated: an omitted field that has a default causes no failure and
\* takes the default (None for the optional fields), and a supplied valid
\* value is held as it was supplied.
C5_SuppliedHeldAsSupplied ==
  (Validated /\ kind \in Kinds) =>
    /\ C5_OmittedNeverFails
    /\ res.ok =>
         \A f \in DOMAIN C5_Defaults[kind] :
           res.rec[f] = IF inp[f] = Absent THEN C5_Defaults[kind][f] ELSE inp[f]

\* C5 (amended): an omitted field that has a default causes no failure and
\* takes the default (None for the optional fields); a supplied valid value
\* is held, in place of the default, in its validated form: the value itself
\* when it is already a value of the field's type, otherwise the value it is
\* converted to (a URL text as the normalised URL, a number or a text given
\* for a boolean as the boolean, a text given for a number as the number, a
\* number given for a time as the time).
C5_SuppliedHeldValidated ==
  (Validated /\ kind \in Kinds) =>
    /\ C5_OmittedNeverFails
    /\ res.ok =>
         \A f \in DOMAIN C5_Defaults[kind] :
           /\ res.rec[f] = IF inp[f] = Absent THEN C5_Defaults[kind][f]
                           ELSE Expected(kind, f, inp[f])
           /\ Accepts(Contract(kind)[f], res.rec[f]) \/ res.rec[f] = None
           /\ inp[f] \notin {Absent, None} =>
                Canonical(Contract(kind)[f], res.rec[f]) = res.rec[f]

C5_Witness ==
  /\ pc = "constructed" /\ kind = "User" /\ res.ok
  /\ inp.role = Absent /\ res.rec.role = S_user
  /\ inp.is_active = Bool(FALSE) /\ res.rec.is_active = Bool(FALSE)
  /\ inp.avatar_url = U_noPath /\ res.rec.avatar_url = U_canon

C6_RoundTrip ==
  pc = "done" => res2.ok /\ res2.rec = res.rec

\* C6 as stated: constructing from the serialised record gives an equal
\* record, and the serialised record has every supplied field with the value
\* that was supplied.
C6_SuppliedReturnedAsSupplied ==
  /\ C6_RoundTrip
  /\ pc \in {"serialized", "done"} => \A f \in Supplied(inp) : doc[f] = inp[f]

\* C6 (amended): constructing from the serialised record gives an equal
\* record, and the serialised record has every supplied field with the
\* validated form of the value that was supplied: the value itself when it is
\* already in that form, otherwise its conversion (the email address with its
\* domain in lower case, the URL normalised, a boolean, number or time in
\* place of the text or number that was given for it).
C6_SuppliedReturnedValidated ==
  /\ C6_RoundTrip
  /\ pc \in {"serialized", "done"} =>
       \A f \in Supplied(inp) :
         /\ doc[f] = Expected(kind, f, inp[f])
         /\ Expected(kind, f, doc[f]) = doc[f]

C6_Witness ==
  /\ pc = "done" /\ kind = "User" /\ res2.ok /\ res2.rec = res.rec
  /\ inp.email = E_upperDomain
  /\ doc.email = E_plain

C7_Required ==
  [User |-> {"name", "email", "hashed_password"},
   Ebook |-> {"title", "author", "price"},
   Purchase |-> {"user_id", "ebook_id", "amount"},
   LibraryItem |-> {"user_id", "ebook_id"}]

\* C7: leaving out a required field of an otherwise valid input is a
\* validation failure, and every reported field is one that is missing or
\* violates its constraint in that input.
C7_ErrorsNameOffenders ==
  (Validated /\ kind \in Kinds) =>
    /\ \A f \in C7_Required[kind] :
         inp[f] = Absent =>
           ~res.ok /\ [field |-> f, type |-> "missing"] \in res.errors
    /\ \A e \in res.errors : e.field \in Unsatisfied(kind, inp)
    /\ ~res.ok => res.errors # {}

C7_Witness ==
  /\ pc = "constructed" /\ kind = "Purchase" /\ ~res.ok
  /\ inp.amount = Absent
  /\ res.errors = {[field |-> "amount", type |-> "missing"]}

----------------------------------------------------------------------------
(* Claims about the records in use (Spec) *)

C8_UpdateAccepted ==
  (last.op = "update" /\ last.from \in Statuses /\ last.to \in Statuses) =>
    last.ok /\ purchases[last.slot].status = last.to

C8_StatusChangesOnlyOnRequest ==
  [][\A i \in DOMAIN purchases :
       purchases'[i].status # purchases[i].status =>
         /\ last'.op \in {"assign", "update"}
         /\ last'.slot = i
         /\ last'.to = purchases'[i].status]_vars

\* C8: nothing sequences or rejects a change of Purchase.status: for every
\* ordered pair of the four statuses, the purchase constructed again with the
\* other status is accepted; and the status of a purchase changes only when
\* a caller sets it, to the value the caller gave.
C8_NoSequencing == []C8_UpdateAccepted /\ C8_StatusChangesOnlyOnRequest

C8_Witness ==
  /\ last.op = "update" /\ last.ok
  /\ last.from = S_refunded /\ last.to = S_created
  /\ purchases[last.slot].status = S_created

\* C9 as stated: in every reachable state, also after in-place updates, every
\* purchase has one of the four statuses and every record satisfies all its
\* declared constraints.
C9_AlwaysConstrained ==
  /\ \A i \in DOMAIN purchases :
       /\ purchases[i].status \in Statuses
       /\ Unsatisfied("Purchase", purchases[i]) = {}
  /\ \A i \in DOMAIN library : Unsatisfied("LibraryItem", library[i]) = {}

\* C9 (amended): a record satisfies all its declared constraints when it has
\* just been constructed (also when constructed again from its serialised
\* form), and a purchase has then one of the four statuses; an in-place
\* update is not validated, so afterwards the assigned field, and only that
\* field, can hold a value outside its constraint.
C9_ConstrainedWhenConstructed ==
  /\ (last.op \in {"Purchase", "update"} /\ last.ok) =>
       /\ purchases[last.slot].status \in Statuses
       /\ Unsatisfied("Purchase", purchases[last.slot]) = {}
  /\ (last.op = "LibraryItem" /\ last.ok) =>
       Unsatisfied("LibraryItem", library[last.slot]) = {}
  /\ \A i \in DOMAIN purchases : Unsatisfied("Purchase", purchases[i]) \subseteq {"status"}

C9_Witness ==
  /\ last.op = "update" /\ last.ok
  /\ last.from = T_pending
  /\ purchases[last.slot].status = S_paid

C10_OutcomeFromInputAlone ==
  last.op \in Kinds => (last.ok <=> Unsatisfied(last.op, last.input) = {})

C10_Frame ==
  [][/\ library' # library => last'.op = "LibraryItem"
     /\ purchases' # purchases => last'.op \in {"Purchase", "assign", "update"}
     /\ userIds' # userIds => last'.op = "User"
     /\ ebookIds' # ebookIds => last'.op = "Ebook"]_vars

\* C10: a record is validated on its own: whether a Purchase, a LibraryItem
\* or an Ebook is constructed depends on its input alone, not on the users,
\* ebooks or other records that exist, and constructing a record of one type
\* creates or changes no record of another type.
C10_Independent == []C10_OutcomeFromInputAlone /\ C10_Frame

C10_Witness ==
  /\ last.op = "Purchase" /\ last.ok
  /\ last.input.status = S_paid
  /\ last.input.user_id \notin userIds
  /\ last.input.ebook_id \notin ebookIds
  /\ library = <<>>

====
